---- MODULE Spec2Model ----
(***************************************************************************)
(* Scheduler of src/src/plum.vue: the work queue (tasks, taskIndex,        *)
(* drawnSegments), the frame callback chain, the three timers and the      *)
(* watchers and DOM handlers that reset a generation.                      *)
(*                                                                         *)
(* One action is one task of the browser's event loop: a DOM event with    *)
(* the watcher it triggers (Vue flushes watchers in a microtask, before    *)
(* any frame callback or timer can run), a frame callback, or a timer      *)
(* callback.  The handlers are written as operators on a record s of the   *)
(* component's state, composed in the order of the source; an action       *)
(* commits the record its handler returns.                                 *)
(*                                                                         *)
(* Abstractions.  Geometry (start, theta, width, height, pointer), colour  *)
(* (palette, isDark, hueOffset), flowStrength, motionAmount and timePhase  *)
(* are read only to compute angles and stroke colours and are not part of  *)
(* the state; the outcome of isInBounds and of every Math.random() test is *)
(* a nondeterministic choice.  A branch keeps its depth and whether its    *)
(* length is below the drawing threshold.  The magnitudes of the source    *)
(* (2200 + 42*density segments, 40..180 steps per frame, 512 retained      *)
(* entries, depth limits 70..90) are scaled down; the scaled values are    *)
(* the bounds below.  The hue of getStrokeColor and the length clamp of    *)
(* step are computed with the numbers of the source, in specifications of  *)
(* their own (SpecHue, SpecLength) that follow one lineage of branches.    *)
(***************************************************************************)
EXTENDS Integers, Sequences, FiniteSets, TLC

\* ------------------------------------------------------------------ bounds
\* segmentLimit's base (2200 in the source, line 150), scaled.
SegmentBase == 4
\* segmentLimit's slope per density unit (42 in the source, line 150), scaled.
SegmentPerDensity == 1
\* The speed slider's range (40..180 in the source, line 578), scaled.
MinSpeed == 2
MaxSpeed == 3
\* frameBudget's floor under time motion (28 in the source, line 156), scaled.
MinFrameBudget == 1
\* popTask's compaction threshold (512 in the source, line 230), scaled.
CompactThreshold == 2
\* depthLimit of the plum pattern (70 in the source, line 74), scaled; the
\* other patterns' limits follow it in steps of DepthLimitStep.
DepthLimitBase == 3
DepthLimitStep == 1
\* Calls made by the queue-only specification SpecQueue.
MaxQueueCalls == 9

\* -------------------------------------------------------- program constants
\* let rafId: number | null = null: the null handle.
Null == 0
\* timeFactor 0.65, in percent (lines 151 and 156).
TimeFactorPct == 65
\* step forces a split while branch.depth < 3 (line 272).
ForcedSplitDepth == 3
\* frameBudget's floor under time motion, Math.max(28, ...) (line 156), and
\* the range of the speed slider (line 578), unscaled.
FrameBudgetFloor == 28
SpeedMin == 40
SpeedMax == 180

Patterns == {"plum", "spiral", "crystal"}
\* Two positions of the density slider (28..72 in the source, line 573).
Densities == {1, 2}
Speeds == {MinSpeed, MaxSpeed}

Max(a, b) == IF a >= b THEN a ELSE b

patternConfigs ==
  [ plum    |-> [depthLimit |-> DepthLimitBase,
                 minChildren |-> 1, maxChildren |-> 2, seeds |-> 2],
    spiral  |-> [depthLimit |-> DepthLimitBase + DepthLimitStep,
                 minChildren |-> 1, maxChildren |-> 3, seeds |-> 4],
    crystal |-> [depthLimit |-> DepthLimitBase + 2 * DepthLimitStep,
                 minChildren |-> 2, maxChildren |-> 3, seeds |-> 6] ]

\* const width = ref(600), const height = ref(600).
DefaultSide == 600

\* No branch: the queue is empty.
NoBranch == [length |-> 0, depth |-> 0, hueOffset |-> 0, seeded |-> FALSE]

VARIABLES
  \* component state (script setup, lines 41-136)
  ctx, isMounted, pattern, density, speed, flowEnabled, timeMotion,
  tasks, taskIndex, drawnSegments,
  rafId, autoRedrawId, pointerRedrawId, redrawTimerId,
  \* host state: lifecycle of the component, the frame callbacks and the
  \* timers the browser holds, and whether the resize listener is registered
  phase, frames, timers, listening,
  \* history
  event, before, redraws, armed, cancelled, enqueued, popped, expanded,
  drawnIds, fifo, fifoPopped, calls,
  \* colour and geometry: the palette, the canvas side (width = height), the
  \* numbers of the last branch of one lineage, and the hue it is stroked
  \* with.  The scheduler reads none of them; the specifications of the
  \* colour mapper and of the length clamp below do
  palette, width, lineage, hue

vars == << ctx, isMounted, pattern, density, speed, flowEnabled, timeMotion,
           tasks, taskIndex, drawnSegments,
           rafId, autoRedrawId, pointerRedrawId, redrawTimerId,
           phase, frames, timers, listening,
           event, before, redraws, armed, cancelled, enqueued, popped,
           expanded, drawnIds, fifo, fifoPopped, calls,
           palette, width, lineage, hue >>

\* The state as a record, and the action that commits a record.
Cur ==
  [ ctx |-> ctx, isMounted |-> isMounted, pattern |-> pattern,
    density |-> density, speed |-> speed, flowEnabled |-> flowEnabled,
    timeMotion |-> timeMotion, tasks |-> tasks, taskIndex |-> taskIndex,
    drawnSegments |-> drawnSegments, rafId |-> rafId,
    autoRedrawId |-> autoRedrawId, pointerRedrawId |-> pointerRedrawId,
    redrawTimerId |-> redrawTimerId, phase |-> phase, frames |-> frames,
    timers |-> timers, listening |-> listening, event |-> event,
    before |-> before, armed |-> armed, cancelled |-> cancelled,
    redraws |-> redraws, enqueued |-> enqueued, popped |-> popped,
    expanded |-> expanded, drawnIds |-> drawnIds,
    fifo |-> fifo, fifoPopped |-> fifoPopped, calls |-> calls ]

CommitRecord(s) ==
  /\ ctx' = s.ctx /\ isMounted' = s.isMounted /\ pattern' = s.pattern
  /\ density' = s.density /\ speed' = s.speed
  /\ flowEnabled' = s.flowEnabled /\ timeMotion' = s.timeMotion
  /\ tasks' = s.tasks /\ taskIndex' = s.taskIndex
  /\ drawnSegments' = s.drawnSegments /\ rafId' = s.rafId
  /\ autoRedrawId' = s.autoRedrawId /\ pointerRedrawId' = s.pointerRedrawId
  /\ redrawTimerId' = s.redrawTimerId /\ phase' = s.phase
  /\ frames' = s.frames /\ timers' = s.timers /\ listening' = s.listening
  /\ event' = s.event /\ before' = s.before /\ redraws' = s.redraws
  /\ armed' = s.armed /\ cancelled' = s.cancelled /\ enqueued' = s.enqueued
  /\ popped' = s.popped /\ expanded' = s.expanded /\ drawnIds' = s.drawnIds
  /\ fifo' = s.fifo /\ fifoPopped' = s.fifoPopped
  /\ calls' = s.calls
  /\ UNCHANGED << palette, width, lineage, hue >>

\* The handler's result r is computed once.
Commit(r) == \E s \in {r} : CommitRecord(s)

\* The scheduler's state: Running while a frame callback is registered,
\* armed for replay while the idle re-seed timer is set, Idle otherwise.
Scheduler ==
  IF rafId # Null THEN "running"
  ELSE IF autoRedrawId # Null THEN "armed" ELSE "idle"

\* The state a handler named e starts from.  History: event names the
\* handler, before the scheduler's state it found; redraws counts the resets
\* it performs, armed and cancelled collect the kinds of the timers it arms
\* and of the pending callbacks (timers, or "frame") it cancels, popped,
\* fifoPopped and expanded log its pops and steps.
Begin(e) ==
  [Cur EXCEPT !.event = e, !.before = Scheduler, !.redraws = 0,
              !.armed = {}, !.cancelled = {},
              !.popped = <<>>, !.expanded = <<>>, !.fifoPopped = <<>>]

\* ------------------------------------------------------------ work queue
\* computed segmentLimit: Math.floor(base * timeFactor).
segmentLimit(s) ==
  LET base == SegmentBase + s.density * SegmentPerDensity
  IN  IF s.timeMotion THEN (base * TimeFactorPct) \div 100 ELSE base

\* frameBudget for a speed setting, with and without time motion, floor
\* being its least value under time motion: Math.max(floor, Math.floor(base *
\* 0.65)).
frameBudgetAt(base, on, floor) ==
  IF on THEN Max(floor, (base * TimeFactorPct) \div 100) ELSE base

\* computed frameBudget.
frameBudget(s) == frameBudgetAt(s.speed, s.timeMotion, MinFrameBudget)

pendingTaskCount(s) == Len(s.tasks) - s.taskIndex

\* resetTasks forgetting the segment counter.
resetTasks_KeepDrawn(s) ==
  [s EXCEPT !.tasks = <<>>, !.taskIndex = 0,
            !.fifo = <<>>, !.enqueued = 0, !.drawnIds = {}]

\* History: the plain FIFO is emptied with the queue, and the enqueue
\* ordinals and the set of drawn branches restart.
resetTasks(s) ==
  [s EXCEPT !.tasks = <<>>, !.taskIndex = 0, !.drawnSegments = 0,
            !.fifo = <<>>, !.enqueued = 0, !.drawnIds = {}]

\* History only: the plain FIFO that never compacts loses its head, and
\* fifoPopped logs the id it returns (0 for null).
fifoPop(s) ==
  IF s.fifo = <<>>
    THEN [s EXCEPT !.fifoPopped = Append(@, 0)]
    ELSE [s EXCEPT !.fifoPopped = Append(@, Head(s.fifo).id),
                   !.fifo = Tail(@)]

\* popTask splicing one entry too many: tasks.splice(0, taskIndex + 1).
popTask_SpliceOffByOne(s) ==
  IF s.taskIndex >= Len(s.tasks)
    THEN [found |-> FALSE, s |-> [fifoPop(s) EXCEPT !.popped = Append(@, 0)]]
    ELSE
      LET task == s.tasks[s.taskIndex + 1]
          index == s.taskIndex + 1
          s1 == [fifoPop(s) EXCEPT !.taskIndex = index,
                                   !.popped = Append(@, task.id)]
      IN  IF index > CompactThreshold /\ index * 2 > Len(s.tasks)
            THEN [found |-> TRUE, task |-> task,
                  s |-> [s1 EXCEPT !.tasks = SubSeq(@, index + 2, Len(@)),
                                   !.taskIndex = 0]]
            ELSE [found |-> TRUE, task |-> task, s |-> s1]

\* popTask returning the head without moving the read cursor.
popTask_NoAdvance(s) ==
  IF s.taskIndex >= Len(s.tasks)
    THEN [found |-> FALSE, s |-> [fifoPop(s) EXCEPT !.popped = Append(@, 0)]]
    ELSE
      LET task == s.tasks[s.taskIndex + 1]
      IN  [found |-> TRUE, task |-> task,
           s |-> [fifoPop(s) EXCEPT !.popped = Append(@, task.id)]]

\* popTask returns the task (found = FALSE for null) and the state it leaves.
\* tasks.splice(0, taskIndex) drops the consumed prefix.  History: popped
\* logs the id returned (0 for null).
popTask(s) ==
  IF s.taskIndex >= Len(s.tasks)
    THEN [found |-> FALSE, s |-> [fifoPop(s) EXCEPT !.popped = Append(@, 0)]]
    ELSE
      LET task == s.tasks[s.taskIndex + 1]
          index == s.taskIndex + 1
          s1 == [fifoPop(s) EXCEPT !.taskIndex = index,
                                   !.popped = Append(@, task.id)]
      IN  IF index > CompactThreshold /\ index * 2 > Len(s.tasks)
            THEN [found |-> TRUE, task |-> task,
                  s |-> [s1 EXCEPT !.tasks = SubSeq(@, index + 1, Len(@)),
                                   !.taskIndex = 0]]
            ELSE [found |-> TRUE, task |-> task, s |-> s1]

\* queueStep without the budget test.
queueStep_Unbounded(s, branch) ==
  LET b == [branch EXCEPT !.id = s.enqueued + 1]
  IN  [s EXCEPT !.tasks = Append(@, b), !.enqueued = @ + 1,
                !.fifo = Append(@, b)]

\* queueStep putting the branch in front: tasks.unshift(branch).
queueStep_PushFront(s, branch) ==
  IF pendingTaskCount(s) + s.drawnSegments >= segmentLimit(s)
    THEN s
    ELSE
      LET b == [branch EXCEPT !.id = s.enqueued + 1]
      IN  [s EXCEPT !.tasks = <<b>> \o @, !.enqueued = @ + 1,
                    !.fifo = Append(@, b)]

\* queueStep drops the branch once pending + drawn reaches the budget.
\* History: the branch gets its enqueue ordinal as id, and joins the plain
\* FIFO.
queueStep(s, branch) ==
  IF pendingTaskCount(s) + s.drawnSegments >= segmentLimit(s)
    THEN s
    ELSE
      LET b == [branch EXCEPT !.id = s.enqueued + 1]
      IN  [s EXCEPT !.tasks = Append(@, b), !.enqueued = @ + 1,
                    !.fifo = Append(@, b)]

\* ---------------------------------------------------------- growth engine
\* A branch: depth, and short = (length < 1.6).  id and parent are history:
\* the branch's enqueue ordinal in its generation and that of the branch
\* whose expansion produced it (0 for a seed).
Branch(depth, short, parent) ==
  [id |-> 0, parent |-> parent, depth |-> depth, short |-> short]

\* The random outcomes of one call of step: isInBounds(end) (the geometry is
\* not modelled), the test Math.random() < splitChance, and childCount,
\* which floor(randomBetween(minChildren, maxChildren + 1)) draws from
\* minChildren .. maxChildren.  Outcomes the code does not read after an
\* earlier one are not varied.
StepChoices(pat) ==
  LET cfg == patternConfigs[pat]
  IN  { [inBounds |-> FALSE, split |-> FALSE, childCount |-> cfg.minChildren],
        [inBounds |-> TRUE, split |-> FALSE, childCount |-> cfg.minChildren] }
      \cup { [inBounds |-> TRUE, split |-> TRUE, childCount |-> k] :
               k \in cfg.minChildren .. cfg.maxChildren }

\* The for loop of step, from child i on: a child's length is clamped to
\* [2, 0.1 * max(width, height)], and 2 >= 1.6, so no child is short.
RECURSIVE addChildren(_, _, _, _)
addChildren(s, branch, i, childCount) ==
  IF i >= childCount THEN s
  ELSE addChildren(queueStep(s, Branch(branch.depth + 1, FALSE, branch.id)),
                   branch, i + 1, childCount)

\* step without the budget test before drawing.
step_NoBudgetGuard(s, branch, c) ==
  IF branch.short
    THEN [s EXCEPT !.expanded =
            Append(@, [id |-> branch.id, parent |-> branch.parent,
                       depth |-> branch.depth, drawn |-> FALSE,
                       out |-> FALSE])]
    ELSE
      LET config == patternConfigs[s.pattern]
          s1 == [s EXCEPT !.drawnSegments = @ + 1,
                          !.drawnIds = @ \cup {branch.id},
                          !.expanded =
                            Append(@, [id |-> branch.id,
                                       parent |-> branch.parent,
                                       depth |-> branch.depth,
                                       drawn |-> TRUE,
                                       out |-> ~c.inBounds])]
      IN  IF \/ ~c.inBounds
             \/ branch.depth >= config.depthLimit
             \/ s1.drawnSegments >= segmentLimit(s1)
            THEN s1
            ELSE IF ~(branch.depth < ForcedSplitDepth \/ c.split)
              THEN s1
              ELSE addChildren(s1, branch, 0, c.childCount)

\* step without the test of the pattern's depthLimit.
step_NoDepthLimit(s, branch, c) ==
  IF s.drawnSegments >= segmentLimit(s) \/ branch.short
    THEN [s EXCEPT !.expanded =
            Append(@, [id |-> branch.id, parent |-> branch.parent,
                       depth |-> branch.depth, drawn |-> FALSE,
                       out |-> FALSE])]
    ELSE
      LET s1 == [s EXCEPT !.drawnSegments = @ + 1,
                          !.drawnIds = @ \cup {branch.id},
                          !.expanded =
                            Append(@, [id |-> branch.id,
                                       parent |-> branch.parent,
                                       depth |-> branch.depth,
                                       drawn |-> TRUE,
                                       out |-> ~c.inBounds])]
      IN  IF ~c.inBounds \/ s1.drawnSegments >= segmentLimit(s1)
            THEN s1
            ELSE IF ~(branch.depth < ForcedSplitDepth \/ c.split)
              THEN s1
              ELSE addChildren(s1, branch, 0, c.childCount)

\* step without the test of isInBounds(end).
step_IgnoresBounds(s, branch, c) ==
  IF s.drawnSegments >= segmentLimit(s) \/ branch.short
    THEN [s EXCEPT !.expanded =
            Append(@, [id |-> branch.id, parent |-> branch.parent,
                       depth |-> branch.depth, drawn |-> FALSE,
                       out |-> FALSE])]
    ELSE
      LET config == patternConfigs[s.pattern]
          s1 == [s EXCEPT !.drawnSegments = @ + 1,
                          !.drawnIds = @ \cup {branch.id},
                          !.expanded =
                            Append(@, [id |-> branch.id,
                                       parent |-> branch.parent,
                                       depth |-> branch.depth,
                                       drawn |-> TRUE,
                                       out |-> ~c.inBounds])]
      IN  IF \/ branch.depth >= config.depthLimit
             \/ s1.drawnSegments >= segmentLimit(s1)
            THEN s1
            ELSE IF ~(branch.depth < ForcedSplitDepth \/ c.split)
              THEN s1
              ELSE addChildren(s1, branch, 0, c.childCount)

\* step: the budget and length tests, the draw, the termination tests, the
\* split decision and the children.  drawLine only paints.  History:
\* expanded logs the branch, its depth, whether it was drawn and whether
\* its endpoint was out of bounds, drawnIds collects the drawn branches.
step(s, branch, c) ==
  IF s.drawnSegments >= segmentLimit(s) \/ branch.short
    THEN [s EXCEPT !.expanded =
            Append(@, [id |-> branch.id, parent |-> branch.parent,
                       depth |-> branch.depth, drawn |-> FALSE,
                       out |-> FALSE])]
    ELSE
      LET config == patternConfigs[s.pattern]
          s1 == [s EXCEPT !.drawnSegments = @ + 1,
                          !.drawnIds = @ \cup {branch.id},
                          !.expanded =
                            Append(@, [id |-> branch.id,
                                       parent |-> branch.parent,
                                       depth |-> branch.depth,
                                       drawn |-> TRUE,
                                       out |-> ~c.inBounds])]
      IN  IF \/ ~c.inBounds
             \/ branch.depth >= config.depthLimit
             \/ s1.drawnSegments >= segmentLimit(s1)
            THEN s1
            ELSE IF ~(branch.depth < ForcedSplitDepth \/ c.split)
              THEN s1
              ELSE addChildren(s1, branch, 0, c.childCount)

\* The while loop of frame without the test of the budget.
RECURSIVE frameLoop_NoBudget(_, _)
frameLoop_NoBudget(s, budget) ==
  IF pendingTaskCount(s) > 0
    THEN LET r == popTask(s)
         IN  IF ~r.found THEN {r.s}
             ELSE UNION { frameLoop_NoBudget(s1, budget - 1) :
                            s1 \in { step(r.s, r.task, c) :
                                       c \in StepChoices(s.pattern) } }
    ELSE {s}

\* The while loop of frame: the states it can end in, one for every outcome
\* of the random choices of its steps.
RECURSIVE frameLoop(_, _)
frameLoop(s, budget) ==
  IF budget > 0 /\ pendingTaskCount(s) > 0
    THEN LET r == popTask(s)
         IN  IF ~r.found THEN {r.s}
             ELSE UNION { frameLoop(s1, budget - 1) :
                            s1 \in { step(r.s, r.task, c) :
                                       c \in StepChoices(s.pattern) } }
    ELSE {s}

\* frame; timePhase advances under time motion, and bends angles only.
frame(s) == frameLoop(s, frameBudget(s))

\* ------------------------------------------------------- host callbacks
\* A registered callback: its handle, and (history) whether a generation
\* has started since it was registered.  A timer's handle is the pair of
\* its kind and a number: setTimeout never returns a handle twice.
FreshHandle(used) == CHOOSE n \in 1 .. Cardinality(used) + 1 : n \notin used

requestAnimationFrame(s) ==
  LET id == FreshHandle({f.id : f \in s.frames})
  IN  [s EXCEPT !.frames = @ \cup {[id |-> id, stale |-> FALSE]},
                !.rafId = id]

cancelAnimationFrame(s, id) ==
  [s EXCEPT !.frames = {f \in @ : f.id # id},
            !.cancelled =
              IF \E f \in s.frames : f.id = id THEN @ \cup {"frame"} ELSE @]

setTimeout(s, kind) ==
  LET id == FreshHandle({t.id : t \in {u \in s.timers : u.kind = kind}})
  IN  [id |-> id,
       s |-> [s EXCEPT !.timers =
                @ \cup {[kind |-> kind, id |-> id, stale |-> FALSE]},
                       !.armed = @ \cup {kind}]]

clearTimeout(s, kind, id) ==
  [s EXCEPT !.timers = {t \in @ : ~(t.kind = kind /\ t.id = id)},
            !.cancelled =
              IF \E t \in s.timers : t.kind = kind /\ t.id = id
                THEN @ \cup {kind} ELSE @]

TimersOf(kind) == {t \in timers : t.kind = kind}

\* ------------------------------------------------------------- scheduler
\* stopAnimation dropping the handle without cancelling the callback.
stopAnimation_KeepCallback(s) == [s EXCEPT !.rafId = Null]

\* stopAnimation cancelling the callback without forgetting its handle.
stopAnimation_KeepHandle(s) ==
  IF s.rafId # Null THEN cancelAnimationFrame(s, s.rafId) ELSE s

stopAnimation(s) ==
  IF s.rafId # Null
    THEN [cancelAnimationFrame(s, s.rafId) EXCEPT !.rafId = Null]
    ELSE s

\* clearAutoRedraw cancelling the timer without forgetting its handle.
clearAutoRedraw_KeepHandle(s) ==
  IF s.autoRedrawId # Null
    THEN clearTimeout(s, "auto", s.autoRedrawId)
    ELSE s

clearAutoRedraw(s) ==
  IF s.autoRedrawId # Null
    THEN [clearTimeout(s, "auto", s.autoRedrawId) EXCEPT !.autoRedrawId = Null]
    ELSE s

\* clearPointerRedraw forgetting the handle without clearTimeout.
clearPointerRedraw_KeepTimer(s) == [s EXCEPT !.pointerRedrawId = Null]

clearPointerRedraw(s) ==
  IF s.pointerRedrawId # Null
    THEN [clearTimeout(s, "pointer", s.pointerRedrawId)
            EXCEPT !.pointerRedrawId = Null]
    ELSE s

clearRedrawTimer(s) ==
  IF s.redrawTimerId # Null
    THEN [clearTimeout(s, "redraw", s.redrawTimerId)
            EXCEPT !.redrawTimerId = Null]
    ELSE s

\* scheduleRedraw not keeping the timer's handle.
scheduleRedraw_HandleLost(s) == setTimeout(clearRedrawTimer(s), "redraw").s

\* scheduleRedraw leaving a pending timer to run out instead of restarting
\* the delay.
scheduleRedraw_KeepPending(s) ==
  IF s.redrawTimerId # Null THEN s
  ELSE LET r == setTimeout(s, "redraw")
       IN  [r.s EXCEPT !.redrawTimerId = r.id]

scheduleRedraw(s) ==
  LET r == setTimeout(clearRedrawTimer(s), "redraw")
  IN  [r.s EXCEPT !.redrawTimerId = r.id]

\* scheduleAutoRedraw without the test of timeMotion.
scheduleAutoRedraw_NoModeCheck(s) ==
  LET s1 == clearAutoRedraw(s)
  IN  IF ~s1.isMounted THEN s1
      ELSE LET r == setTimeout(s1, "auto")
           IN  [r.s EXCEPT !.autoRedrawId = r.id]

scheduleAutoRedraw(s) ==
  LET s1 == clearAutoRedraw(s)
  IN  IF ~s1.timeMotion \/ ~s1.isMounted THEN s1
      ELSE LET r == setTimeout(s1, "auto")
           IN  [r.s EXCEPT !.autoRedrawId = r.id]

\* runAnimation registers tick unless a frame callback is registered.
runAnimation(s) ==
  IF s.rafId # Null THEN s ELSE requestAnimationFrame(s)

\* seedBranches, from seed i on: 2, 4 or 6 branches of depth 0, whose length
\* (0.04 or 0.03 of a side of at least 250) is not short.
RECURSIVE seedFrom(_, _)
seedFrom(s, i) ==
  IF i >= patternConfigs[s.pattern].seeds THEN s
  ELSE seedFrom(queueStep(s, Branch(0, FALSE, 0)), i + 1)

seedBranches(s) == seedFrom(s, 0)

\* History only: a generation starts, and every callback the host still
\* holds was registered before it.
startGeneration(s) ==
  [s EXCEPT !.redraws = @ + 1,
            !.frames = {[f EXCEPT !.stale = TRUE] : f \in @},
            !.timers = {[t EXCEPT !.stale = TRUE] : t \in @}]

\* redraw without the test of ctx.
redraw_NoSinkCheck(s) ==
  runAnimation(
    seedBranches(
      startGeneration(
        resetTasks(
          clearRedrawTimer(
            clearAutoRedraw(
              stopAnimation(s)))))))

\* redraw; clearCanvas only paints.
redraw(s) ==
  IF ~s.ctx THEN s
  ELSE runAnimation(
         seedBranches(
           startGeneration(
             resetTasks(
               clearRedrawTimer(
                 clearAutoRedraw(
                   stopAnimation(s)))))))

\* schedulePointerRedraw with its guard inverted.
schedulePointerRedraw_InvertedGuard(s) ==
  IF s.rafId = Null THEN s
  ELSE LET r == setTimeout(clearPointerRedraw(s), "pointer")
       IN  [r.s EXCEPT !.pointerRedrawId = r.id]

schedulePointerRedraw(s) ==
  IF s.rafId # Null THEN s
  ELSE LET r == setTimeout(clearPointerRedraw(s), "pointer")
       IN  [r.s EXCEPT !.pointerRedrawId = r.id]

\* tick registering itself again whatever the queue holds.
tick_NeverIdles(s1) == requestAnimationFrame(s1)

\* The closure tick of runAnimation, after frame() has left state s1.
tick(s1) ==
  IF pendingTaskCount(s1) = 0
    THEN scheduleAutoRedraw([s1 EXCEPT !.rafId = Null])
    ELSE requestAnimationFrame(s1)

\* ---------------------------------------------------------------- actions
Init ==
  /\ ctx = FALSE /\ isMounted = FALSE
  /\ pattern = "plum" /\ density = 1 /\ speed = MinSpeed
  /\ flowEnabled = FALSE /\ timeMotion = FALSE
  /\ tasks = <<>> /\ taskIndex = 0 /\ drawnSegments = 0
  /\ rafId = Null /\ autoRedrawId = Null
  /\ pointerRedrawId = Null /\ redrawTimerId = Null
  /\ phase = "setup" /\ frames = {} /\ timers = {} /\ listening = FALSE
  /\ event = "init" /\ before = "idle" /\ redraws = 0 /\ armed = {}
  /\ cancelled = {}
  /\ enqueued = 0
  /\ popped = <<>> /\ expanded = <<>> /\ drawnIds = {}
  /\ fifo = <<>> /\ fifoPopped = <<>> /\ calls = 0
  /\ palette = "mist" /\ width = DefaultSide /\ lineage = NoBranch /\ hue = 0

\* The controls, the canvas and the watchers exist while the component is
\* mounted.
Live == phase = "mounted"

\* onMounted: getContext('2d') may return null.  setCanvasSize and
\* syncCanvasResolution change the geometry only.
Mount ==
  /\ phase = "setup"
  /\ \E hasContext \in BOOLEAN :
       LET s == [Begin("mount") EXCEPT !.phase = "mounted", !.isMounted = TRUE]
       IN  IF ~hasContext THEN Commit(s)
           ELSE Commit([redraw([s EXCEPT !.ctx = TRUE])
                          EXCEPT !.listening = TRUE])

\* onUnmounted.
Unmount ==
  /\ Live
  /\ Commit([resetTasks(
               clearRedrawTimer(
                 clearPointerRedraw(
                   clearAutoRedraw(
                     stopAnimation(
                       [Begin("unmount") EXCEPT !.isMounted = FALSE])))))
               EXCEPT !.listening = FALSE, !.phase = "unmounted"])

\* watch([pattern, palette, flowEnabled, isDark], redraw), per source.
SetPattern ==
  /\ Live
  /\ \E p \in Patterns \ {pattern} :
       Commit(redraw([Begin("pattern") EXCEPT !.pattern = p]))

SetPalette == Live /\ Commit(redraw(Begin("palette")))

ToggleDark == Live /\ Commit(redraw(Begin("theme")))

ToggleFlowEnabled ==
  /\ Live
  /\ Commit(redraw([Begin("flowEnabled") EXCEPT !.flowEnabled = ~flowEnabled]))

\* watch([density, flowStrength, motionAmount], () => scheduleRedraw(120)),
\* per source.  The flow and motion sliders are disabled unless their mode
\* is on.
SetDensity ==
  /\ Live
  /\ \E d \in Densities \ {density} :
       Commit(scheduleRedraw([Begin("density") EXCEPT !.density = d]))

SetFlowStrength ==
  /\ Live /\ flowEnabled
  /\ Commit(scheduleRedraw(Begin("flowStrength")))

SetMotionAmount ==
  /\ Live /\ timeMotion
  /\ Commit(scheduleRedraw(Begin("motionAmount")))

\* speed has no watcher.
SetSpeed ==
  /\ Live
  /\ \E v \in Speeds \ {speed} : Commit([Begin("speed") EXCEPT !.speed = v])

\* watch(timeMotion, (enabled) => ...), after the checkbox has toggled.
watchTimeMotion(s) ==
  redraw(IF ~s.timeMotion THEN clearAutoRedraw(s) ELSE s)

ToggleTimeMotion ==
  /\ Live
  /\ Commit(watchTimeMotion(
              [Begin("timeMotion") EXCEPT !.timeMotion = ~timeMotion]))

\* @click="redraw" on the canvas and on the Regenerate button.
ClickCanvas == Live /\ Commit(redraw(Begin("click")))

ClickRegenerate == Live /\ Commit(redraw(Begin("regenerate")))

\* onCanvasMove; pointer.value is geometry.
onCanvasMove(s) ==
  IF s.flowEnabled /\ ~s.timeMotion THEN schedulePointerRedraw(s) ELSE s

CanvasMove == Live /\ Commit(onCanvasMove(Begin("move")))

\* handleResize, while the listener is registered.
Resize == listening /\ Commit(redraw(Begin("resize")))

\* The host runs a registered frame callback, and forgets it.
FrameCallback ==
  \E f \in frames :
    \E s1 \in frame([Begin("frame") EXCEPT !.frames = @ \ {f}]) :
      Commit(tick(s1))

\* The callbacks of the three timers (the arrow functions of
\* scheduleRedraw, scheduleAutoRedraw and schedulePointerRedraw).
redrawTimerCallback(s) == redraw([s EXCEPT !.redrawTimerId = Null])

autoRedrawCallback(s) ==
  LET s1 == [s EXCEPT !.autoRedrawId = Null]
  IN  IF ~s1.isMounted THEN s1 ELSE redraw(s1)

pointerRedrawCallback(s) ==
  LET s1 == [s EXCEPT !.pointerRedrawId = Null]
  IN  IF s1.flowEnabled /\ ~s1.timeMotion THEN redraw(s1) ELSE s1

\* The host runs the callback of a pending timer, and forgets the timer.
RedrawTimerFire ==
  \E t \in TimersOf("redraw") :
    Commit(redrawTimerCallback(
             [Begin("redrawTimer") EXCEPT !.timers = @ \ {t}]))

AutoRedrawFire ==
  \E t \in TimersOf("auto") :
    Commit(autoRedrawCallback([Begin("autoTimer") EXCEPT !.timers = @ \ {t}]))

PointerRedrawFire ==
  \E t \in TimersOf("pointer") :
    Commit(pointerRedrawCallback(
             [Begin("pointerTimer") EXCEPT !.timers = @ \ {t}]))

Next ==
  \/ Mount \/ Unmount
  \/ SetPattern \/ SetPalette \/ ToggleDark \/ ToggleFlowEnabled
  \/ SetDensity \/ SetFlowStrength \/ SetMotionAmount
  \/ SetSpeed \/ ToggleTimeMotion
  \/ ClickCanvas \/ ClickRegenerate \/ CanvasMove \/ Resize
  \/ FrameCallback \/ RedrawTimerFire \/ AutoRedrawFire \/ PointerRedrawFire

Spec == Init /\ [][Next]_vars

\* A step in which the host's repaint has run a registered frame callback:
\* FrameCallback alone names its step "frame".
Repaint == event' = "frame"

\* The host repaints again and again, so that a frame callback that stays
\* registered is eventually run: WF_vars(FrameCallback), in which the steps
\* of FrameCallback are recognised by their name and
\* ENABLED <<FrameCallback>>_vars is written as the predicate it equals,
\* frames # {} (a registered callback can always be run, and running it
\* changes the queue or the handles).
RepaintsKeepOccurring == []<>(frames = {}) \/ []<><<Repaint>>_vars

SpecFair == Spec /\ RepaintsKeepOccurring

\* ------------------------------------------------- the queue on its own
\* Any sequence of queueStep and popTask calls on the queue of a fresh
\* component, MaxQueueCalls long.
QueueStepCall ==
  /\ calls < MaxQueueCalls
  /\ Commit(queueStep([Begin("queueStep") EXCEPT !.calls = @ + 1],
                      Branch(0, FALSE, 0)))

PopTaskCall ==
  /\ calls < MaxQueueCalls
  /\ Commit(popTask([Begin("popTask") EXCEPT !.calls = @ + 1]).s)

NextQueue == QueueStepCall \/ PopTaskCall

SpecQueue == Init /\ [][NextQueue]_vars

\* ------------------------------------------------------ the colour mapper
\* The numbers of the source, unscaled.  Angles of hue are in tenths of a
\* degree (hueStep is 2.4, 4.2 or 3.4), so that the arithmetic is exact.
Palettes == {"mist", "sunset", "aurora"}

paletteConfigs ==
  [ mist   |-> [baseHue |-> 360,  hueStep |-> 24],
    sunset |-> [baseHue |-> 160,  hueStep |-> 42],
    aurora |-> [baseHue |-> 2140, hueStep |-> 34] ]

\* depthLimit, decayMin and decayMax (in hundredths) of patternConfigs, and
\* the hueOffset (in degrees) and the length (in thousandths of the side) of
\* the seeds of seedBranches.
growthConfigs ==
  [ plum    |-> [depthLimit |-> 70, decayMin |-> 88, decayMax |-> 105,
                 seedHueOffsets |-> {-20, 20}, seedLength |-> 40],
    spiral  |-> [depthLimit |-> 80, decayMin |-> 86, decayMax |-> 98,
                 seedHueOffsets |-> {0, 30, 60, 90}, seedLength |-> 40],
    crystal |-> [depthLimit |-> 90, decayMin |-> 90, decayMax |-> 103,
                 seedHueOffsets |-> {0, 18, 36, 54, 72, 90},
                 seedLength |-> 30] ]

\* JavaScript's a % m for m > 0: the remainder has the sign of a.
Remainder(a, m) == IF a >= 0 THEN a % m ELSE 0 - ((0 - a) % m)

\* The hue of getStrokeColor, in tenths of a degree.
getStrokeHue(pal, depth, hueOffset) ==
  LET config == paletteConfigs[pal]
  IN  Remainder(config.baseHue + depth * config.hueStep + hueOffset + 3600,
                3600)

\* randomBetween(-16, 16) for Math.random() in {0, 1/4, 1/2, 3/4}, in tenths.
HueIncrements == {-160, -80, 0, 80}

\* seedBranches enqueues a seed, which step draws with its hue.
SeedHue ==
  /\ ~lineage.seeded
  /\ \E p \in Patterns, q \in Palettes :
       \E h \in growthConfigs[p].seedHueOffsets :
         /\ pattern' = p /\ palette' = q
         /\ lineage' = [NoBranch EXCEPT !.hueOffset = h * 10, !.seeded = TRUE]
         /\ hue' = getStrokeHue(q, 0, h * 10)
  /\ UNCHANGED << ctx, isMounted, density, speed, flowEnabled, timeMotion,
                  tasks, taskIndex, drawnSegments, rafId, autoRedrawId,
                  pointerRedrawId, redrawTimerId, phase, frames, timers,
                  listening, event, before, redraws, armed, cancelled,
                  enqueued, popped, expanded, drawnIds, fifo, fifoPopped,
                  calls, width >>

\* step enqueues a child of a branch above the depthLimit, one level deeper
\* and with hueOffset moved by randomBetween(-16, 16); step draws it with
\* its hue.
StepHue ==
  /\ lineage.seeded /\ lineage.depth < growthConfigs[pattern].depthLimit
  /\ \E inc \in HueIncrements :
       /\ lineage' = [lineage EXCEPT !.depth = @ + 1, !.hueOffset = @ + inc]
       /\ hue' = getStrokeHue(palette, lineage.depth + 1,
                              lineage.hueOffset + inc)
  /\ UNCHANGED << ctx, isMounted, pattern, density, speed, flowEnabled,
                  timeMotion, tasks, taskIndex, drawnSegments, rafId,
                  autoRedrawId, pointerRedrawId, redrawTimerId, phase, frames,
                  timers, listening, event, before, redraws, armed, cancelled,
                  enqueued, popped, expanded, drawnIds, fifo, fifoPopped,
                  calls, palette, width >>

NextHue == SeedHue \/ StepHue

SpecHue == Init /\ [][NextHue]_vars

\* ------------------------------------------------------- the length clamp
\* Lengths are in hundredths of a pixel, factors in thousandths.  The
\* density slider (28 .. 72, line 573), the sides setCanvasSize can set
\* (clamp(viewportSide, 250, 760)): the least, the initial and the greatest,
\* and Math.random() in thousandths: its least value, its middle and the
\* greatest.
DensitySettings == 28 .. 72
CanvasSides == {250, DefaultSide, 760}
RandomSamples == {0, 500, 999}

\* randomBetween for Math.random() = r / 1000; min and max in thousandths.
randomBetween(min, max, r) == min + (r * (max - min)) \div 1000

\* clamp without its lower limit.
clamp_NoLowerLimit(value, min, max) == IF value <= max THEN value ELSE max

\* clamp: Math.min(max, Math.max(min, value)).
clamp(value, min, max) ==
  LET raised == IF value >= min THEN value ELSE min
  IN  IF raised <= max THEN raised ELSE max

\* The length step gives a child: branch.length * randomBetween(decayMin,
\* decayMax) * randomBetween(0.9, 1.08) * (density / 45), clamped to
\* [2, 0.1 * Math.max(width, height)].  Each product is rounded down to a
\* hundredth of a pixel.
childLength(len, pat, dens, side, r1, r2) ==
  LET config == growthConfigs[pat]
      decay == randomBetween(config.decayMin * 10, config.decayMax * 10, r1)
      jitter == randomBetween(900, 1080, r2)
      decayed == (len * decay) \div 1000
      jittered == (decayed * jitter) \div 1000
  IN  clamp((jittered * dens) \div 45, 200, side * 10)

\* step's test branch.length < 1.6, which discards a branch undrawn.
isShort(len) == len < 160

\* setCanvasSize and seedBranches: a seed of length 0.04 * side (0.03 for
\* crystal), for a density and a canvas side.
SeedLength ==
  /\ ~lineage.seeded
  /\ \E p \in Patterns, d \in DensitySettings, side \in CanvasSides :
       /\ pattern' = p /\ density' = d /\ width' = side
       /\ lineage' = [NoBranch EXCEPT
                        !.length = (side * growthConfigs[p].seedLength) \div 10,
                        !.seeded = TRUE]
  /\ UNCHANGED << ctx, isMounted, speed, flowEnabled, timeMotion,
                  tasks, taskIndex, drawnSegments, rafId, autoRedrawId,
                  pointerRedrawId, redrawTimerId, phase, frames, timers,
                  listening, event, before, redraws, armed, cancelled,
                  enqueued, popped, expanded, drawnIds, fifo, fifoPopped,
                  calls, palette, hue >>

\* step enqueues a child of the branch, one level deeper.  The depthLimit
\* is not applied here: the length does not depend on the depth, and the
\* lineages of the code are prefixes of these.
StepLength ==
  /\ lineage.seeded
  /\ \E r1 \in RandomSamples, r2 \in RandomSamples :
       lineage' = [lineage EXCEPT
                     !.length = childLength(@, pattern, density, width, r1, r2),
                     !.depth = 1]
  /\ UNCHANGED << ctx, isMounted, pattern, density, speed, flowEnabled,
                  timeMotion, tasks, taskIndex, drawnSegments, rafId,
                  autoRedrawId, pointerRedrawId, redrawTimerId, phase, frames,
                  timers, listening, event, before, redraws, armed, cancelled,
                  enqueued, popped, expanded, drawnIds, fifo, fifoPopped,
                  calls, palette, width, hue >>

NextLength == SeedLength \/ StepLength

SpecLength == Init /\ [][NextLength]_vars

\* ----------------------------------------------------------------- claims
Min(a, b) == IF a <= b THEN a ELSE b

\* The branches the queue holds and has not consumed.
Pending == SubSeq(tasks, taskIndex + 1, Len(tasks))

\* The queue right after seeding: the first seeds of the active pattern, as
\* many as the budget admits, with the first enqueue ordinals.
SeedQueue ==
  [i \in 1 .. Min(patternConfigs[pattern].seeds, segmentLimit(Cur)) |->
     [id |-> i, parent |-> 0, depth |-> 0, short |-> FALSE]]

\* C1: when a generation starts, every callback pending at that moment
\* (frame callback, idle re-seed timer, parameter debounce timer, pointer
\* debounce timer) has been cancelled: the host holds no callback that was
\* registered before the current generation started.
C1_PendingCallbacksCancelled ==
  /\ \A f \in frames : ~f.stale
  /\ \A t \in timers : ~t.stale

\* C2 as claimed: in every reachable state drawnSegments is at most the
\* segment budget of the current settings.
C2_DrawnWithinCurrentBudget == drawnSegments <= segmentLimit(Cur)

\* C2 as amended: drawnSegments is at most the budget of the current settings
\* whenever no parameter debounce timer is pending, and no step ever raises
\* drawnSegments above the budget of the current settings.
C2_DrawnWithinBudget ==
  [][ /\ redrawTimerId' = Null => drawnSegments' <= segmentLimit(Cur)'
      /\ drawnSegments' > drawnSegments =>
           drawnSegments' <= segmentLimit(Cur)' ]_vars

\* C2 witness: a frame tick has drawn the last segment of the budget while
\* a debounced reset is pending.
C2_Witness ==
  /\ event = "frame" /\ redrawTimerId # Null
  /\ \E i \in 1 .. Len(expanded) : expanded[i].drawn
  /\ drawnSegments = segmentLimit(Cur)

\* C3 as claimed: pending + drawnSegments <= segmentLimit in every state,
\* the branches enqueued in a generation never exceed the budget, and no
\* popped branch is skipped undrawn.
C3_EnqueuedWithinCurrentBudget ==
  /\ pendingTaskCount(Cur) + drawnSegments <= segmentLimit(Cur)
  /\ enqueued <= segmentLimit(Cur)
  /\ \A i \in 1 .. Len(expanded) : expanded[i].drawn

\* C3 as amended: whenever no parameter debounce timer is pending, the
\* branches enqueued in the generation are the pending and the drawn ones
\* and never exceed segmentLimit, and no popped branch is skipped undrawn.
C3_EnqueuedWithinBudget ==
  redrawTimerId = Null =>
    /\ pendingTaskCount(Cur) + drawnSegments <= segmentLimit(Cur)
    /\ enqueued <= segmentLimit(Cur)
    /\ enqueued = pendingTaskCount(Cur) + drawnSegments
    /\ \A i \in 1 .. Len(expanded) : expanded[i].drawn

\* C3 witness: a frame tick has left the queue non-empty with the budget
\* used up by pending and drawn branches together.
C3_Witness ==
  /\ event = "frame" /\ redrawTimerId = Null
  /\ pendingTaskCount(Cur) > 0 /\ drawnSegments > 0
  /\ pendingTaskCount(Cur) + drawnSegments = segmentLimit(Cur)

\* C4: every reset leaves drawnSegments = 0, the read cursor at 0 and a
\* queue that holds only the depth-0 seed branches of the active pattern,
\* whichever state the scheduler was in.
C4_ResetClearsRunState ==
  redraws > 0 =>
    /\ drawnSegments = 0 /\ taskIndex = 0 /\ drawnIds = {}
    /\ tasks = SeedQueue

\* C4 witness: a click has reset a running generation.
C4_Witness ==
  /\ redraws > 0 /\ before = "running" /\ event = "click"
  /\ tasks = SeedQueue /\ Len(tasks) > 0
\* C5: turning time motion on resets and re-seeds exactly once; the tick
\* that empties the queue under time motion arms exactly one idle re-seed
\* timer; turning time motion off cancels it, and while time motion is off
\* no idle re-seed timer is pending, so none can fire.
C5_TimeMotionScenario ==
  /\ event = "timeMotion" /\ ctx => redraws = 1
  /\ event = "frame" /\ pendingTaskCount(Cur) = 0 /\ timeMotion /\ isMounted =>
       /\ autoRedrawId # Null
       /\ TimersOf("auto") =
            {[kind |-> "auto", id |-> autoRedrawId, stale |-> FALSE]}
  /\ ~timeMotion => TimersOf("auto") = {} /\ autoRedrawId = Null
  /\ Cardinality(TimersOf("auto")) <= 1

\* C5 witness: time motion has been turned off while the idle re-seed timer
\* was armed.
C5_Witness ==
  /\ event = "timeMotion" /\ ~timeMotion /\ before = "armed"
  /\ redraws = 1 /\ TimersOf("auto") = {}

\* C6 as claimed: with the flow field on and time motion off, a pointer
\* move leaves the pointer debounce timer pending, in whichever state the
\* scheduler was.
C6_MoveAlwaysArmsTimer ==
  event = "move" /\ flowEnabled /\ ~timeMotion =>
    /\ pointerRedrawId # Null
    /\ \E t \in TimersOf("pointer") : t.id = pointerRedrawId

\* C6 as amended: with the flow field on and time motion off, a pointer
\* move made while no frame callback is registered arms the pointer debounce
\* timer afresh, and the timer's callback resets and re-seeds if the two
\* modes are still that way and a render sink exists.
C6_IdleMoveForcesReset ==
  /\ event = "move" /\ flowEnabled /\ ~timeMotion /\ before # "running" =>
       /\ pointerRedrawId # Null
       /\ TimersOf("pointer") =
            {[kind |-> "pointer", id |-> pointerRedrawId, stale |-> FALSE]}
  /\ event = "pointerTimer" /\ flowEnabled /\ ~timeMotion /\ ctx =>
       redraws = 1 /\ tasks = SeedQueue /\ drawnSegments = 0

\* C6 witness: the pointer debounce timer has fired and reset a generation.
C6_Witness ==
  /\ event = "pointerTimer" /\ flowEnabled /\ ~timeMotion
  /\ redraws = 1 /\ TimersOf("pointer") = {}

OptionEvents ==
  {"pattern", "palette", "density", "speed", "flowEnabled", "flowStrength",
   "timeMotion", "motionAmount"}

\* C7 as claimed: every change of a configuration option resets at once or
\* leaves the parameter debounce timer pending (a render sink existing).
C7_EveryOptionResets ==
  event \in OptionEvents /\ ctx =>
    \/ redraws = 1
    \/ redrawTimerId # Null /\ \E t \in TimersOf("redraw") : t.id = redrawTimerId

\* C7 as amended: a change of pattern, palette, flowEnabled or timeMotion
\* resets at once; a change of density, flowStrength or motionAmount arms the
\* parameter debounce timer, whose callback resets; a change of speed does
\* neither (a render sink existing).
C7_OptionResets ==
  /\ event \in {"pattern", "palette", "flowEnabled", "timeMotion"} /\ ctx =>
       redraws = 1
  /\ event \in {"density", "flowStrength", "motionAmount"} =>
       /\ redraws = 0 /\ redrawTimerId # Null
       /\ TimersOf("redraw") =
            {[kind |-> "redraw", id |-> redrawTimerId, stale |-> FALSE]}
  /\ event = "redrawTimer" /\ ctx => redraws = 1 /\ tasks = SeedQueue
  /\ event = "speed" => redraws = 0

\* C7 witness: the debounce timer armed by a parameter change has fired and
\* reset.
C7_Witness ==
  /\ event = "redrawTimer" /\ redraws = 1 /\ redrawTimerId = Null
  /\ TimersOf("redraw") = {}

ImmediateEvents ==
  {"pattern", "palette", "theme", "flowEnabled", "resize", "click",
   "regenerate"}

\* C8: with a render sink, every immediate trigger resets completely in
\* whichever state it arrives: the queue holds the new seeds only,
\* drawnSegments is 0 and exactly one frame callback is registered.
C8_ImmediateTriggerResets ==
  event \in ImmediateEvents /\ ctx =>
    /\ redraws = 1
    /\ tasks = SeedQueue /\ taskIndex = 0 /\ drawnSegments = 0
    /\ rafId # Null
    /\ frames = {[id |-> rafId, stale |-> FALSE]}

\* C8 witness: a canvas resize has reset a running generation.
C8_Witness ==
  /\ event = "resize" /\ before = "running" /\ redraws = 1
  /\ Cardinality(frames) = 1

\* C9: the queue with compaction returns the same branches in the same
\* order as a plain FIFO that never compacts, and reports the same count of
\* pending branches.
C9_CompactionUnobservable ==
  /\ Pending = fifo
  /\ popped = fifoPopped
  /\ pendingTaskCount(Cur) = Len(fifo)

\* C9 witness: a pop has purged the consumed prefix and left pending
\* branches.
C9_Witness ==
  /\ event = "popTask" /\ popped # <<0>> /\ taskIndex = 0
  /\ Len(tasks) > 0 /\ Len(tasks) < Len(fifo) + CompactThreshold + 1
  /\ enqueued > CompactThreshold + Len(tasks)

\* C10: branches are expanded in the order in which they were enqueued, and
\* a child is expanded after its parent's segment has been drawn, in the
\* parent's frame tick or a later one.
C10_ParentFirstFifo ==
  LET n == Len(expanded)
      done == enqueued - pendingTaskCount(Cur)
  IN  /\ \A i \in 1 .. Len(Pending) :
           /\ Pending[i].id = done + i
           /\ Pending[i].parent # 0 => Pending[i].parent \in drawnIds
      /\ \A i \in 1 .. n :
           /\ expanded[i].id = done - n + i
           /\ expanded[i].parent # 0 =>
                /\ expanded[i].parent \in drawnIds
                /\ \A j \in i .. n : expanded[j].id # expanded[i].parent

\* C10 witness: a frame tick has expanded a branch and then its child.
C10_Witness ==
  /\ event = "frame"
  /\ \E i, j \in 1 .. Len(expanded) :
       i < j /\ expanded[j].parent = expanded[i].id /\ expanded[j].drawn

\* C11: a child's depth is exactly one more than the depth of the branch
\* whose expansion produced it, a seed's depth is 0, no branch deeper than
\* the active pattern's depthLimit is expanded into children, and every
\* branch in the queue has depth at most that depthLimit.
C11_DepthStepsByOne ==
  LET limit == patternConfigs[pattern].depthLimit
      children == {Pending[j] : j \in 1 .. Len(Pending)}
                    \cup {expanded[j] : j \in 1 .. Len(expanded)}
  IN  /\ \A i \in 1 .. Len(tasks) :
           /\ tasks[i].depth <= limit
           /\ tasks[i].parent = 0 => tasks[i].depth = 0
      /\ \A i \in 1 .. Len(expanded) :
           /\ expanded[i].depth <= limit
           /\ \A b \in children :
                b.parent = expanded[i].id =>
                  /\ b.depth = expanded[i].depth + 1
                  /\ expanded[i].depth < limit

\* C11 witness: a frame tick has drawn a branch at the depthLimit, with
\* budget left and a split drawn, and enqueued no child for it, after having
\* enqueued the child of a shallower branch.
C11_Witness ==
  /\ event = "frame" /\ drawnSegments < segmentLimit(Cur)
  /\ \E i \in 1 .. Len(expanded) :
       /\ expanded[i].depth = patternConfigs[pattern].depthLimit
       /\ expanded[i].drawn
       /\ \A j \in 1 .. Len(Pending) : Pending[j].parent # expanded[i].id
  /\ \E i \in 1 .. Len(expanded), j \in 1 .. Len(Pending) :
       Pending[j].parent = expanded[i].id

\* The queue and the segment counter.
RunState == << tasks, taskIndex, drawnSegments >>

\* C12: after unmount, from whichever state, the host holds no frame
\* callback and none of the three timers, the four handles are null and the
\* queue is empty; and from then on no event starts a generation or changes
\* drawnSegments or the queue.
C12_TeardownIsFinal ==
  /\ [](phase = "unmounted" =>
          /\ frames = {} /\ timers = {}
          /\ rafId = Null /\ autoRedrawId = Null
          /\ pointerRedrawId = Null /\ redrawTimerId = Null
          /\ tasks = <<>> /\ taskIndex = 0 /\ drawnSegments = 0
          /\ ~isMounted /\ ~listening)
  /\ [][phase = "unmounted" =>
          /\ RunState' = RunState
          /\ frames' = {} /\ timers' = {} /\ phase' = "unmounted"]_vars

\* C12 witness: the component has been unmounted while the idle re-seed
\* timer was armed, with a render sink.
C12_Witness ==
  /\ phase = "unmounted" /\ event = "unmount" /\ before = "armed" /\ ctx
  /\ timers = {} /\ frames = {}

\* C13: while there is no render sink (ctx is null), no trigger (immediate,
\* debounced, pointer-driven or idle re-seed) seeds the queue, registers a
\* frame callback or changes drawnSegments: the scheduler is Idle and the
\* queue empty.
C13_NoSinkNoRun ==
  ~ctx =>
    /\ redraws = 0
    /\ tasks = <<>> /\ taskIndex = 0 /\ drawnSegments = 0
    /\ rafId = Null /\ frames = {}
    /\ autoRedrawId = Null /\ TimersOf("auto") = {}
    /\ Scheduler = "idle"

\* C13 witness: without a render sink, the parameter debounce timer has
\* fired while the pointer debounce timer is pending and both modes are on.
C13_Witness ==
  /\ ~ctx /\ phase = "mounted" /\ event = "redrawTimer"
  /\ flowEnabled /\ timeMotion /\ pointerRedrawId # Null

\* C14: a frame tick that leaves the queue empty leaves the scheduler Idle
\* (no frame callback registered), with the idle re-seed timer armed if and
\* only if time motion is on, and a tick that leaves branches pending
\* registers the next one; while the scheduler is Idle with time motion off,
\* the next event is never a tick nor an idle re-seed: only an external
\* trigger (a watcher, a click, a resize, or a debounced trigger's timer)
\* ends that state.
C14_EmptyQueueIdles ==
  /\ [](event = "frame" =>
          IF pendingTaskCount(Cur) = 0
            THEN /\ rafId = Null /\ frames = {}
                 /\ autoRedrawId # Null <=> timeMotion
                 /\ TimersOf("auto") # {} <=> timeMotion
            ELSE rafId # Null /\ frames = {[id |-> rafId, stale |-> FALSE]})
  /\ [][Scheduler = "idle" /\ ~timeMotion =>
          /\ event' \notin {"frame", "autoTimer"}
          /\ pendingTaskCount(Cur) = 0
          /\ (RunState' # RunState \/ rafId' # Null) =>
                redraws' = 1 \/ event' = "unmount"]_vars

\* C14 witness: with time motion off, a frame tick has drawn the last
\* pending branch and left the scheduler Idle with no timer of any kind.
C14_Witness ==
  /\ event = "frame" /\ ~timeMotion /\ pendingTaskCount(Cur) = 0
  /\ drawnSegments > 0 /\ Scheduler = "idle" /\ timers = {}

ParameterEvents == {"density", "flowStrength", "motionAmount"}

\* C15: at most one parameter debounce timer is pending at any time, the
\* one redrawTimerId names; every change of density, flowStrength or
\* motionAmount resets nothing, cancels the timer a previous change left and
\* arms the timer afresh, so that the delay runs from the last change of a
\* burst; the timer's callback resets and re-seeds exactly once (a render
\* sink existing) and leaves no parameter debounce timer; and every reset
\* cancels the pending parameter debounce timer.
C15_BurstCoalesces ==
  /\ Cardinality(TimersOf("redraw")) <= 1
  /\ \A t \in TimersOf("redraw") : t.id = redrawTimerId /\ ~t.stale
  /\ redrawTimerId # Null => TimersOf("redraw") # {}
  /\ event \in ParameterEvents =>
       redraws = 0 /\ "redraw" \in armed /\ redrawTimerId # Null
  /\ event = "redrawTimer" =>
       /\ ctx => redraws = 1 /\ tasks = SeedQueue /\ drawnSegments = 0
       /\ TimersOf("redraw") = {} /\ redrawTimerId = Null
  /\ redraws > 0 => redraws = 1 /\ TimersOf("redraw") = {}

\* C15 witness: a change of a parameter has found the timer of the previous
\* change pending, cancelled it and armed the timer afresh.
C15_Witness ==
  /\ event \in ParameterEvents /\ ctx
  /\ "redraw" \in cancelled /\ "redraw" \in armed
  /\ Cardinality(TimersOf("redraw")) = 1

\* C16: a drawn branch whose endpoint is outside the canvas enqueues no
\* child, so its segment is the last of its lineage; and the tick that ends
\* a generation with the flow field and time motion off leaves the queue
\* empty and nothing pending that would continue it.
C16_OutOfBoundsEndsLineage ==
  /\ \A i \in 1 .. Len(expanded) :
       expanded[i].out =>
         /\ expanded[i].drawn
         /\ \A j \in 1 .. Len(Pending) : Pending[j].parent # expanded[i].id
         /\ \A j \in 1 .. Len(expanded) : expanded[j].parent # expanded[i].id
  /\ event = "frame" /\ rafId = Null /\ ~flowEnabled /\ ~timeMotion =>
       /\ pendingTaskCount(Cur) = 0 /\ fifo = <<>>
       /\ frames = {} /\ TimersOf("auto") = {}

\* C16 witness: with both modes off, the last tick of a generation has drawn
\* a branch that ended out of bounds at a depth where a split is forced and
\* the budget was not used up; other branches of the generation had children.
C16_Witness ==
  /\ event = "frame" /\ rafId = Null /\ ~flowEnabled /\ ~timeMotion
  /\ pendingTaskCount(Cur) = 0
  /\ drawnSegments < segmentLimit(Cur)
  /\ enqueued > patternConfigs[pattern].seeds
  /\ \E i \in 1 .. Len(expanded) :
       expanded[i].out /\ expanded[i].depth < ForcedSplitDepth

\* C17: for every branch that can be drawn (depth 0 .. depthLimit, hueOffset
\* a seed's offset plus one increment of [-16, 16] per level) and every
\* palette, the hue of the stroke colour is in [0, 360).
C17_HueNormalized ==
  lineage.seeded => 0 <= hue /\ hue < 3600

\* C18: a frame tick expands at most frameBudget branches, at least one if
\* the queue is not empty when it starts, and fewer than frameBudget only if
\* it leaves the queue empty; frameBudget is the speed setting with time
\* motion off and max(28, floor(0.65 * speed)) with it on, which is below the
\* speed setting for every speed of 40 .. 180.
C18_TickWithinFrameBudget ==
  /\ [](/\ \A v \in SpeedMin .. SpeedMax :
             /\ frameBudgetAt(v, FALSE, FrameBudgetFloor) = v
             /\ frameBudgetAt(v, TRUE, FrameBudgetFloor) =
                  Max(28, (65 * v) \div 100)
             /\ frameBudgetAt(v, TRUE, FrameBudgetFloor) < v
        /\ frameBudget(Cur) = IF timeMotion
                                THEN Max(MinFrameBudget, (65 * speed) \div 100)
                                ELSE speed
        /\ timeMotion => frameBudget(Cur) < speed)
  /\ [][event' = "frame" =>
          /\ Len(expanded') <= frameBudget(Cur)
          /\ Len(popped') = Len(expanded')
          /\ pendingTaskCount(Cur) > 0 => Len(expanded') >= 1
          /\ Len(expanded') < frameBudget(Cur) =>
               pendingTaskCount(Cur)' = 0]_vars

\* C18 witness: under time motion a frame tick has expanded frameBudget
\* branches, fewer than the speed setting, and left branches pending.
C18_Witness ==
  /\ event = "frame" /\ timeMotion
  /\ Len(expanded) = frameBudget(Cur) /\ frameBudget(Cur) < speed
  /\ pendingTaskCount(Cur) > 0

\* C19: for every pattern, every density of 28 .. 72 and every canvas side
\* the component sets, a child enqueued by step has a length within
\* [2, 0.1 * max(width, height)], and no enqueued branch, seed or child, is
\* short, that is discarded by the test length < 1.6.
C19_ChildLengthClamped ==
  lineage.seeded =>
    /\ ~isShort(lineage.length)
    /\ lineage.depth > 0 =>
         200 <= lineage.length /\ lineage.length <= width * 10

\* C19 witness: at the least density a child's length has come down to the
\* lower limit of the clamp.
C19_Witness ==
  /\ lineage.seeded /\ lineage.depth > 0 /\ density = 28
  /\ lineage.length = 200

\* C20: every generation terminates: once seeded, while frame callbacks
\* keep being run, the scheduler leaves Running with the queue empty unless
\* a trigger resets the generation first, for every pattern and every
\* outcome of the random choices.
C20_GenerationTerminates ==
  (rafId # Null) ~> (\/ rafId = Null /\ pendingTaskCount(Cur) = 0
                     \/ redraws > 0)

\* C20 witness: the tick that ends a generation of the crystal pattern at the
\* larger density has drawn the last segment of the budget.
C20_Witness ==
  /\ event = "frame" /\ before = "running" /\ rafId = Null
  /\ pattern = "crystal" /\ density = 2 /\ ~timeMotion
  /\ pendingTaskCount(Cur) = 0 /\ drawnSegments = segmentLimit(Cur)

\* C21: while the idle re-seed timer is pending (autoRedrawId set), no frame
\* callback is registered (rafId null), the queue has no pending branch,
\* time motion is on and the component is mounted; the scheduler is never
\* Running and armed for replay at once.  The handle names the one idle
\* re-seed timer the host holds.
C21_ArmedImpliesIdleQueue ==
  /\ autoRedrawId # Null =>
       /\ rafId = Null /\ frames = {}
       /\ pendingTaskCount(Cur) = 0
       /\ timeMotion
       /\ isMounted /\ phase = "mounted"
       /\ TimersOf("auto") =
            {[kind |-> "auto", id |-> autoRedrawId, stale |-> FALSE]}
  /\ ~(rafId # Null /\ autoRedrawId # Null)
  /\ TimersOf("auto") # {} => autoRedrawId # Null

\* C21 witness: a parameter has changed while the idle re-seed timer was
\* armed after a generation that drew segments, and the timer is still
\* pending, with the parameter debounce timer.
C21_Witness ==
  /\ event \in ParameterEvents /\ before = "armed"
  /\ autoRedrawId # Null /\ redrawTimerId # Null
  /\ drawnSegments > 0 /\ Cardinality(timers) >= 2

\* C22: whatever resets, frame ticks and timer firings have occurred, at
\* most one frame callback is registered, and it is the one rafId names:
\* rafId is non-null exactly when a callback is registered; a callback that
\* a reset or the teardown cancels is no longer held by the host, so that
\* the callback a frame tick runs is the one rafId named, registered after
\* the last reset, and the tick leaves at most the callback it registers.
C22_SingleFrameChain ==
  /\ [](/\ Cardinality(frames) <= 1
        /\ rafId # Null <=> frames # {}
        /\ \A f \in frames : f.id = rafId /\ ~f.stale
        /\ "frame" \in cancelled =>
             /\ before = "running"
             /\ redraws = 1 \/ event = "unmount"
             /\ event = "unmount" => frames = {})
  /\ [][event' = "frame" =>
          /\ frames = {[id |-> rafId, stale |-> FALSE]}
          /\ "frame" \notin cancelled'
          /\ frames' \subseteq {[id |-> rafId', stale |-> FALSE]}]_vars

\* C22 witness: while the pointer debounce timer was pending, the parameter
\* debounce timer has fired during a running generation; its reset has
\* cancelled the registered frame callback and registered one anew.
C22_Witness ==
  /\ event = "redrawTimer" /\ before = "running" /\ redraws = 1
  /\ "frame" \in cancelled
  /\ TimersOf("pointer") # {}
  /\ frames = {[id |-> rafId, stale |-> FALSE]}

====
